---- MODULE Spec2Model ----
(***************************************************************************)
(* Model of multi_exchange_pairs.py (and its older twin SpotPairCheck.py,  *)
(* which differs only in message language and the export directory).       *)
(*                                                                         *)
(* Text is modelled as a sequence of one-character strings, so that        *)
(* startswith, len, the substring test, replace, upper and the             *)
(* lexicographic order used by sorted() are computed as Python does.       *)
(***************************************************************************)
EXTENDS Integers, Sequences, FiniteSets, TLC

(***************************************************************************)
(* Bounds of the model.                                                    *)
(***************************************************************************)
\* longest raw feed (number of entries of one API response) that is enumerated
MaxFeed == 2
\* longest custom quote list typed by the user that is enumerated
MaxReq == 2
\* number of distinct base assets in the widest feed given to a run of main
MaxBases == 22

(***************************************************************************)
(* Python values that are not text.                                        *)
(***************************************************************************)
\* a key that is absent from a dict of the decoded JSON
Missing == <<"<missing>">>
\* JSON null decoded to None inside a payload
NoneVal == <<"<None>">>
\* a JSON number inside a payload (truthy, not a str)
NumVal == <<"<number>">>
\* a pair_info value that is not a dict
NotDict == [quote |-> NumVal, base |-> NumVal, wsname |-> NumVal, altname |-> NumVal, isdict |-> FALSE]
\* the sentinel returned by a failed fetch
None == [isNone |-> TRUE]

IsStr(v) == v \notin {Missing, NoneVal, NumVal}

(***************************************************************************)
(* Text constants.                                                         *)
(***************************************************************************)
USD == <<"U", "S", "D">>
USDT == <<"U", "S", "D", "T">>
USDC == <<"U", "S", "D", "C">>
EUR == <<"E", "U", "R">>
GBP == <<"G", "B", "P">>
JPY == <<"J", "P", "Y">>
CAD == <<"C", "A", "D">>
AUD == <<"A", "U", "D">>
CHF == <<"C", "H", "F">>
DAI == <<"D", "A", "I">>
BUSD == <<"B", "U", "S", "D">>
ZUSD == <<"Z", "U", "S", "D">>
ZEUR == <<"Z", "E", "U", "R">>
ZGBP == <<"Z", "G", "B", "P">>
ZJPY == <<"Z", "J", "P", "Y">>
ZCAD == <<"Z", "C", "A", "D">>
ZAUD == <<"Z", "A", "U", "D">>
TRADING == <<"T", "R", "A", "D", "I", "N", "G">>
BREAK == <<"B", "R", "E", "A", "K">>
Binance == <<"B", "i", "n", "a", "n", "c", "e">>
Kraken == <<"K", "r", "a", "k", "e", "n">>
binance == <<"b", "i", "n", "a", "n", "c", "e">>
kraken == <<"k", "r", "a", "k", "e", "n">>
BTC == <<"B", "T", "C">>
ETH == <<"E", "T", "H">>
XBT == <<"X", "B", "T">>
XRP == <<"X", "R", "P">>
XXBT == <<"X", "X", "B", "T">>
ATOM == <<"A", "T", "O", "M">>
XMOON == <<"X", "M", "O", "O", "N">>
BTCUSD == <<"B", "T", "C", "U", "S", "D">>
ETHUSD == <<"E", "T", "H", "U", "S", "D">>
ETHUSDT == <<"E", "T", "H", "U", "S", "D", "T">>
XBTUSD == <<"X", "B", "T", "U", "S", "D">>
XXBTZUSD == <<"X", "X", "B", "T", "Z", "U", "S", "D">>
XBTUSD_d == <<"X", "B", "T", "U", "S", "D", ".", "d">>
X_dUSD == <<"X", ".", "d", "U", "S", "D">>
ETHUSDd == <<"E", "T", "H", "U", "S", "D", "d">>
BTC_USD == <<"B", "T", "C", "/", "U", "S", "D">>
ETH_USD_T == <<"E", "T", "H", "/", "U", "S", "D", "/", "T">>

(***************************************************************************)
(* Python string and list primitives.                                      *)
(***************************************************************************)
Range(s) == {s[i] : i \in 1..Len(s)}

\* str.startswith(c) for a one-character prefix
StartsWith(s, c) == Len(s) >= 1 /\ s[1] = c

\* sub in s
Contains(s, sub) == \E i \in 0..(Len(s) - Len(sub)) : SubSeq(s, i + 1, i + Len(sub)) = sub

\* s.replace(c, '')
Replace(s, c) == SelectSeq(s, LAMBDA ch : ch # c)

\* dict.get(key, default) on a decoded JSON object
Get(v, default) == IF v = Missing THEN default ELSE v

\* truthiness of a decoded JSON value
Truthy(v) == v \notin {Missing, NoneVal, <<>>}

UpperCase == <<"A", "B", "C", "D", "E", "F", "G", "H", "I", "J", "K", "L", "M",
               "N", "O", "P", "Q", "R", "S", "T", "U", "V", "W", "X", "Y", "Z">>
LowerCase == <<"a", "b", "c", "d", "e", "f", "g", "h", "i", "j", "k", "l", "m",
               "n", "o", "p", "q", "r", "s", "t", "u", "v", "w", "x", "y", "z">>
Digits == <<"0", "1", "2", "3", "4", "5", "6", "7", "8", "9">>

IndexIn(c, table) == CHOOSE i \in 1..Len(table) : table[i] = c

\* ord(c) for the characters that occur in codes, symbols and names
CodePoint(c) ==
    IF c \in Range(UpperCase) THEN 64 + IndexIn(c, UpperCase)
    ELSE IF c \in Range(LowerCase) THEN 96 + IndexIn(c, LowerCase)
    ELSE IF c \in Range(Digits) THEN 47 + IndexIn(c, Digits)
    ELSE IF c = " " THEN 32
    ELSE IF c = "," THEN 44
    ELSE IF c = "." THEN 46
    ELSE IF c = "/" THEN 47
    ELSE IF c = ":" THEN 58
    ELSE 95

\* a < b on str: lexicographic by code point, a proper prefix is smaller
StrLess(a, b) ==
    \E k \in 0..Len(a) :
        /\ k <= Len(b)
        /\ SubSeq(a, 1, k) = SubSeq(b, 1, k)
        /\ \/ k = Len(a) /\ k < Len(b)
           \/ k < Len(a) /\ k < Len(b) /\ CodePoint(a[k + 1]) < CodePoint(b[k + 1])

\* str.upper()
Upper(s) ==
    [i \in 1..Len(s) |->
        IF s[i] \in Range(LowerCase) THEN UpperCase[IndexIn(s[i], LowerCase)] ELSE s[i]]

\* str.strip() for blanks
RECURSIVE Strip(_)
Strip(s) ==
    IF s # <<>> /\ s[1] = " " THEN Strip(Tail(s))
    ELSE IF s # <<>> /\ s[Len(s)] = " " THEN Strip(SubSeq(s, 1, Len(s) - 1))
    ELSE s

\* str.split(',')
RECURSIVE Split(_)
Split(s) ==
    IF "," \notin Range(s) THEN <<s>>
    ELSE LET i == CHOOSE k \in 1..Len(s) : s[k] = "," /\ \A j \in 1..(k - 1) : s[j] # ","
         IN <<SubSeq(s, 1, i - 1)>> \o Split(SubSeq(s, i + 1, Len(s)))

\* sorted(S) for a set of str
RECURSIVE SortedSet(_)
SortedSet(S) ==
    IF S = {} THEN <<>>
    ELSE LET least == CHOOSE x \in S : \A y \in S : x = y \/ StrLess(x, y)
         IN <<least>> \o SortedSet(S \ {least})

\* sorted(pairs, key=lambda x: x['symbol']): stable, ascending by symbol
RECURSIVE SortedBySymbol(_)
SortedBySymbol(pairs) ==
    IF pairs = <<>> THEN <<>>
    ELSE LET front == SortedBySymbol(SubSeq(pairs, 1, Len(pairs) - 1))
             last == pairs[Len(pairs)]
             k == Cardinality({i \in 1..Len(front) : ~StrLess(last.symbol, front[i].symbol)})
         IN SubSeq(front, 1, k) \o <<last>> \o SubSeq(front, k + 1, Len(front))

\* concatenation of a list of lists
RECURSIVE Flatten(_)
Flatten(ss) == IF ss = <<>> THEN <<>> ELSE Head(ss) \o Flatten(Tail(ss))

\* sum of a list of numbers
RECURSIVE Sum(_)
Sum(ns) == IF ns = <<>> THEN 0 ELSE Head(ns) + Sum(Tail(ns))

\* s[:n]
Prefix(s, n) == SubSeq(s, 1, IF Len(s) < n THEN Len(s) ELSE n)

(***************************************************************************)
(* State.                                                                  *)
(***************************************************************************)
VARIABLES
    pc,             \* position of main(): "direct" while a fetcher is called on its own
    exchanges,      \* list returned by get_exchange_choice
    quote_assets,   \* list returned by get_asset_choice, passed to every fetcher
    all_results,    \* main's list of fetch outcomes
    fetcher,        \* name of the fetcher whose fetch_pairs is running, <<>> if none
    fpc,            \* position inside fetch_pairs: "idle", "begin", "loop", "returned"
    response,       \* outcome of requests.get: the response, or the failure met
    http_calls,     \* the requests.get calls made so far: the exchange each one went to
    data,           \* decoded JSON payload of the response
    results,        \* fetch_pairs local: quote code -> list of pair records
    all_pairs,      \* fetch_pairs local: flat list of pair records
    search_assets,  \* KrakenFetcher.fetch_pairs local: ordered dict code -> raw names
    idx,            \* position of the processing loop in the raw feed (1-based)
    ret,            \* value returned by the last fetch_pairs call
    display_choice, \* display_results local: the answer to its prompt, "" before it ran
    console,        \* what display_results printed, line by line
    files,          \* the files save_results wrote, in the order written
    raised          \* exception that escaped main, "none" if none did

mainvars == <<pc, exchanges, quote_assets, all_results, display_choice, console, files, raised>>
fetchvars == <<fetcher, fpc, response, http_calls, data, results, all_pairs, search_assets, idx, ret>>
vars == <<pc, exchanges, quote_assets, all_results, fetcher, fpc, response, http_calls, data, results, all_pairs,
          search_assets, idx, ret, display_choice, console, files, raised>>

\* payload before any response was decoded
NoData == [keys |-> {}, error |-> <<>>, result |-> <<>>, symbols |-> <<>>]
\* no request was made yet
NoResponse == [kind |-> "none", data |-> NoData]

(***************************************************************************)
(* KrakenFetcher                                                           *)
(***************************************************************************)
\* self.asset_map, a dict in source order: <<canonical code, raw Kraken names>>
asset_map ==
    << <<USD, <<ZUSD, USD>> >>,
       <<USDT, <<USDT>> >>,
       <<USDC, <<USDC>> >>,
       <<EUR, <<ZEUR, EUR>> >>,
       <<GBP, <<ZGBP, GBP>> >>,
       <<JPY, <<ZJPY, JPY>> >>,
       <<CAD, <<ZCAD, CAD>> >>,
       <<AUD, <<ZAUD, AUD>> >>,
       <<CHF, <<CHF>> >>,
       <<DAI, <<DAI>> >>,
       <<BUSD, <<BUSD>> >> >>

\* keys of a dict filled by assigning the elements of s in order
\* (a repeated key keeps the position of its first assignment)
RECURSIVE DictKeys(_)
DictKeys(s) ==
    IF s = <<>> THEN <<>>
    ELSE LET front == DictKeys(SubSeq(s, 1, Len(s) - 1))
             last == s[Len(s)]
         IN IF last \in Range(front) THEN front ELSE Append(front, last)

\* KrakenNamesOf with the alias table ignored: only the code itself is searched
KrakenNamesOf_NoAlias(asset) == <<asset>>

\* the raw names searched for one requested code (lines 121-124)
KrakenNamesOf(asset) ==
    IF \E i \in 1..Len(asset_map) : asset_map[i][1] = asset
    THEN asset_map[CHOOSE i \in 1..Len(asset_map) : asset_map[i][1] = asset][2]
    ELSE <<asset>>

\* search_assets as built by lines 119-124
BuildSearchAssets(qa) ==
    LET keys == DictKeys(qa)
    IN [i \in 1..Len(keys) |-> <<keys[i], KrakenNamesOf(keys[i])>>]

\* ScanSearch without the break of line 170: every matching code is recorded
RECURSIVE ScanSearch_NoBreak(_, _, _)
ScanSearch_NoBreak(search, q, i) ==
    IF i > Len(search) THEN <<>>
    ELSE IF q \in Range(search[i][2])
         THEN <<search[i][1]>> \o ScanSearch_NoBreak(search, q, i + 1)
         ELSE ScanSearch_NoBreak(search, q, i + 1)

\* the requested codes for which the body of the inner loop (lines 137-170)
\* runs for a raw quote code q, scanning search_assets from position i
RECURSIVE ScanSearch(_, _, _)
ScanSearch(search, q, i) ==
    IF i > Len(search) THEN <<>>
    ELSE IF q \in Range(search[i][2])
         THEN <<search[i][1]>>                     \* break
         ELSE ScanSearch(search, q, i + 1)

\* BaseClean without the length guard: any leading X or Z is stripped
BaseClean_NoLenGuard(base_asset_kraken) ==
    IF StartsWith(base_asset_kraken, "X") \/ StartsWith(base_asset_kraken, "Z")
    THEN SubSeq(base_asset_kraken, 2, Len(base_asset_kraken))
    ELSE base_asset_kraken

\* base_clean (lines 140-144)
BaseClean(base_asset_kraken) ==
    IF StartsWith(base_asset_kraken, "X") /\ Len(base_asset_kraken) = 4
    THEN SubSeq(base_asset_kraken, 2, Len(base_asset_kraken))
    ELSE IF StartsWith(base_asset_kraken, "Z") /\ Len(base_asset_kraken) = 4
         THEN SubSeq(base_asset_kraken, 2, Len(base_asset_kraken))
         ELSE base_asset_kraken

\* TvSymbol that prefers altname and uses wsname only as the fallback
TvSymbol_AltFirst(pair_name, pair_info) ==
    LET wsname == Get(pair_info.wsname, <<>>)
    IN IF pair_info.altname # Missing THEN pair_info.altname
       ELSE IF Truthy(wsname) THEN Replace(wsname, "/") ELSE pair_name

\* tv_symbol (lines 147-156)
TvSymbol(pair_name, pair_info) ==
    LET altname == Get(pair_info.altname, pair_name)
        wsname == Get(pair_info.wsname, <<>>)
    IN IF Truthy(wsname) THEN Replace(wsname, "/") ELSE altname

\* KrakenPairData that records the raw Kraken quote code as quoteAsset
KrakenPairData_RawQuote(pair_name, pair_info, original_asset) ==
    [symbol |-> TvSymbol(pair_name, pair_info),
     baseAsset |-> BaseClean(Get(pair_info.base, <<>>)),
     quoteAsset |-> Get(pair_info.quote, <<>>),
     exchange |-> Kraken,
     kraken_pair |-> pair_name,
     wsname |-> Get(pair_info.wsname, <<>>),
     altname |-> Get(pair_info.altname, pair_name)]

\* KrakenPairData that keeps the base code as Kraken sent it
KrakenPairData_RawBase(pair_name, pair_info, original_asset) ==
    [symbol |-> TvSymbol(pair_name, pair_info),
     baseAsset |-> Get(pair_info.base, <<>>),
     quoteAsset |-> original_asset,
     exchange |-> Kraken,
     kraken_pair |-> pair_name,
     wsname |-> Get(pair_info.wsname, <<>>),
     altname |-> Get(pair_info.altname, pair_name)]

\* pair_data (lines 158-166)
KrakenPairData(pair_name, pair_info, original_asset) ==
    [symbol |-> TvSymbol(pair_name, pair_info),
     baseAsset |-> BaseClean(Get(pair_info.base, <<>>)),
     quoteAsset |-> original_asset,
     exchange |-> Kraken,
     kraken_pair |-> pair_name,
     wsname |-> Get(pair_info.wsname, <<>>),
     altname |-> Get(pair_info.altname, pair_name)]

\* the inner loop body raises AttributeError: startswith on a base that is
\* not a str, or replace on a truthy wsname that is not a str
KrakenBodyRaises(pair_info) ==
    \/ ~IsStr(Get(pair_info.base, <<>>))
    \/ /\ Truthy(Get(pair_info.wsname, <<>>))
       /\ ~IsStr(Get(pair_info.wsname, <<>>))

\* IsFutures that only looks at the end of the pair name
IsFutures_SuffixOnly(pair_name) ==
    Len(pair_name) >= 2 /\ SubSeq(pair_name, Len(pair_name) - 1, Len(pair_name)) = <<".", "d">>

\* the futures filter of line 129
IsFutures(pair_name) == Contains(pair_name, <<".", "d">>)

\* FetchResult whose total adds up one list per entry of the quote list
FetchResult_PerEntry(name, res, pairs) ==
    [isNone |-> FALSE, exchange |-> name, results |-> res, all_pairs |-> pairs,
     total |-> Sum([i \in 1..Len(quote_assets) |-> Len(res[quote_assets[i]])])]

\* the dict returned on success (lines 68-73 and 172-177)
FetchResult(name, res, pairs) ==
    [isNone |-> FALSE, exchange |-> name, results |-> res, all_pairs |-> pairs, total |-> Len(pairs)]

\* an except branch that hands back what was accumulated so far
ReturnNone_Partial ==
    /\ ret' = FetchResult(fetcher, results, all_pairs)
    /\ fpc' = "returned"
    /\ UNCHANGED <<fetcher, data, results, all_pairs, search_assets, idx>>

\* the except branch: the whole call returns None, whatever was accumulated
ReturnNone ==
    /\ ret' = None
    /\ fpc' = "returned"
    /\ UNCHANGED <<fetcher, data, results, all_pairs, search_assets, idx>>

\* lines 102-124: request, decode, error field, initialise the locals
KrakenBegin(Responses) ==
    /\ fetcher = Kraken
    /\ fpc = "begin"
    /\ \E resp \in Responses :
        /\ response' = resp
        /\ http_calls' = Append(http_calls, fetcher)
        /\ IF resp.kind # "ok" \/ "error" \notin resp.data.keys
           THEN ReturnNone
           ELSE IF resp.data.error # <<>>
           THEN ReturnNone
           ELSE
             /\ data' = resp.data
             /\ results' = [a \in Range(quote_assets) |-> <<>>]
             /\ all_pairs' = <<>>
             /\ search_assets' = BuildSearchAssets(quote_assets)
             /\ idx' = 1
             /\ fpc' = "loop"
             /\ UNCHANGED <<fetcher, ret>>
    /\ UNCHANGED mainvars

\* line 127 when data has no 'result' key: KeyError
KrakenNoResult ==
    /\ fetcher = Kraken
    /\ fpc = "loop"
    /\ "result" \notin data.keys
    /\ ReturnNone
    /\ UNCHANGED <<response, http_calls, mainvars>>

\* one iteration of the loop of lines 127-170
KrakenIter ==
    /\ fetcher = Kraken
    /\ fpc = "loop"
    /\ "result" \in data.keys
    /\ idx <= Len(data.result)
    /\ LET pair_name == data.result[idx][1]
           pair_info == data.result[idx][2]
           matched == ScanSearch(search_assets, Get(pair_info.quote, <<>>), 1)
       IN IF IsFutures(pair_name)
          THEN /\ idx' = idx + 1
               /\ UNCHANGED <<fetcher, fpc, data, results, all_pairs, search_assets, ret>>
          ELSE IF ~pair_info.isdict
          THEN ReturnNone
          ELSE IF matched = <<>>
          THEN /\ idx' = idx + 1
               /\ UNCHANGED <<fetcher, fpc, data, results, all_pairs, search_assets, ret>>
          ELSE IF KrakenBodyRaises(pair_info)
          THEN ReturnNone
          ELSE /\ results' = [a \in DOMAIN results |->
                                results[a] \o SelectSeq([i \in 1..Len(matched) |->
                                    KrakenPairData(pair_name, pair_info, matched[i])],
                                    LAMBDA p : p.quoteAsset = a)]
               /\ all_pairs' = all_pairs \o [i \in 1..Len(matched) |->
                                    KrakenPairData(pair_name, pair_info, matched[i])]
               /\ idx' = idx + 1
               /\ UNCHANGED <<fetcher, fpc, data, search_assets, ret>>
    /\ UNCHANGED <<response, http_calls, mainvars>>

\* lines 172-177
KrakenReturn ==
    /\ fetcher = Kraken
    /\ fpc = "loop"
    /\ "result" \in data.keys
    /\ idx > Len(data.result)
    /\ ret' = FetchResult(Kraken, results, all_pairs)
    /\ fpc' = "returned"
    /\ UNCHANGED <<fetcher, data, results, all_pairs, search_assets, idx>>
    /\ UNCHANGED <<response, http_calls, mainvars>>

(***************************************************************************)
(* BinanceFetcher                                                          *)
(***************************************************************************)
\* pair_info (lines 59-64)
BinancePairInfo(symbol) ==
    [symbol |-> symbol.symbol,
     baseAsset |-> symbol.baseAsset,
     quoteAsset |-> symbol.quoteAsset,
     exchange |-> Binance]

\* BinanceKeeps without the status test
BinanceKeeps_AnyStatus(symbol, qa) ==
    symbol.quoteAsset \in Range(qa)

\* the condition of line 57
BinanceKeeps(symbol, qa) ==
    symbol.quoteAsset \in Range(qa) /\ symbol.status = TRADING

\* subscripting a raw symbol record raises KeyError: quoteAsset is always
\* read, status only after the quote matched (and short-circuits), symbol
\* and baseAsset only for a kept record
BinanceIterRaises(symbol, qa) ==
    \/ symbol.quoteAsset = Missing
    \/ /\ symbol.quoteAsset \in Range(qa)
       /\ \/ symbol.status = Missing
          \/ /\ symbol.status = TRADING
             /\ (symbol.symbol = Missing \/ symbol.baseAsset = Missing)

\* lines 44-54: request, decode, initialise the locals
BinanceBegin(Responses) ==
    /\ fetcher = Binance
    /\ fpc = "begin"
    /\ \E resp \in Responses :
        /\ response' = resp
        /\ http_calls' = Append(http_calls, fetcher)
        /\ IF resp.kind # "ok"
           THEN ReturnNone
           ELSE
             /\ data' = resp.data
             /\ results' = [a \in Range(quote_assets) |-> <<>>]
             /\ all_pairs' = <<>>
             /\ idx' = 1
             /\ fpc' = "loop"
             /\ UNCHANGED <<fetcher, search_assets, ret>>
    /\ UNCHANGED mainvars

\* line 56 when data has no 'symbols' key: KeyError
BinanceNoSymbols ==
    /\ fetcher = Binance
    /\ fpc = "loop"
    /\ "symbols" \notin data.keys
    /\ ReturnNone
    /\ UNCHANGED <<response, http_calls, mainvars>>

\* one iteration of the loop of lines 56-66
BinanceIter ==
    /\ fetcher = Binance
    /\ fpc = "loop"
    /\ "symbols" \in data.keys
    /\ idx <= Len(data.symbols)
    /\ LET symbol == data.symbols[idx]
       IN IF BinanceIterRaises(symbol, quote_assets)
          THEN ReturnNone
          ELSE IF BinanceKeeps(symbol, quote_assets)
          THEN /\ results' = [results EXCEPT ![symbol.quoteAsset] = Append(@, BinancePairInfo(symbol))]
               /\ all_pairs' = Append(all_pairs, BinancePairInfo(symbol))
               /\ idx' = idx + 1
               /\ UNCHANGED <<fetcher, fpc, data, search_assets, ret>>
          ELSE /\ idx' = idx + 1
               /\ UNCHANGED <<fetcher, fpc, data, results, all_pairs, search_assets, ret>>
    /\ UNCHANGED <<response, http_calls, mainvars>>

\* lines 68-73
BinanceReturn ==
    /\ fetcher = Binance
    /\ fpc = "loop"
    /\ "symbols" \in data.keys
    /\ idx > Len(data.symbols)
    /\ ret' = FetchResult(Binance, results, all_pairs)
    /\ fpc' = "returned"
    /\ UNCHANGED <<fetcher, data, results, all_pairs, search_assets, idx>>
    /\ UNCHANGED <<response, http_calls, mainvars>>

(***************************************************************************)
(* Inputs: quote lists and API responses.                                  *)
(***************************************************************************)
\* the preset lists of get_asset_choice (choices 1-6)
PresetLists ==
    {<<USD>>, <<USDT>>, <<USDC>>, <<USD, USDT, USDC>>, <<EUR>>,
     <<USD, USDT, USDC, EUR, GBP>>}

\* codes typed in a custom selection (choice 7)
CustomCodes == {USD, ZUSD, USDT}

\* the lists get_asset_choice can return: a preset, or a non-empty custom list
CustomLists == UNION {[1..n -> CustomCodes] : n \in 1..MaxReq}
QuoteLists == PresetLists \cup CustomLists

\* a response that never yields a payload
FailedResponses ==
    {[kind |-> k, data |-> NoData] : k \in {"transport_error", "http_error", "bad_json"}}

KrakenInfo(q, b, w, a) == [quote |-> q, base |-> b, wsname |-> w, altname |-> a, isdict |-> TRUE]

KrakenPairNames == {XXBTZUSD, ETHUSDd, XBTUSD_d, X_dUSD}

\* every combination of field values, used for feeds of one entry
KrakenInfos ==
    {KrakenInfo(q, b, w, a) :
        q \in {Missing, ZUSD, USD, USDT, ZEUR},
        b \in {Missing, <<>>, <<"X">>, XRP, XXBT, ZEUR, ATOM, XMOON, NoneVal},
        w \in {Missing, <<>>, BTC_USD, ETH_USD_T, NoneVal, NumVal},
        a \in {Missing, XBTUSD}}
    \cup {NotDict}

\* the entries combined in longer feeds
KrakenEntries ==
    {XXBTZUSD, ETHUSDd, XBTUSD_d} \X
    {KrakenInfo(ZUSD, XXBT, BTC_USD, XBTUSD),
     KrakenInfo(USDT, ETH, Missing, ETHUSDT),
     KrakenInfo(USD, NoneVal, Missing, Missing),
     NotDict}

\* data['result'] is a dict: its keys (the pair names) are distinct
DistinctNames(feed) == \A i, j \in 1..Len(feed) : i # j => feed[i][1] # feed[j][1]

KrakenFeeds ==
    {<<>>}
    \cup {<<e>> : e \in KrakenPairNames \X KrakenInfos}
    \cup {f \in UNION {[1..n -> KrakenEntries] : n \in 2..MaxFeed} : DistinctNames(f)}

KrakenData(keys, error, feed) == [keys |-> keys, error |-> error, result |-> feed, symbols |-> <<>>]

KrakenResponses ==
    FailedResponses
    \cup {[kind |-> "ok", data |-> KrakenData({"error", "result"}, <<>>, f)] : f \in KrakenFeeds}
    \cup {[kind |-> "ok", data |-> KrakenData({"error", "result"}, << <<"E">> >>, f)] :
            f \in {<<>>, <<<<XXBTZUSD, KrakenInfo(ZUSD, XXBT, BTC_USD, XBTUSD)>>>>}}
    \cup {[kind |-> "ok", data |-> KrakenData({"result"}, <<>>, <<>>)],
          [kind |-> "ok", data |-> KrakenData({"error"}, <<>>, <<>>)]}

BinanceSymbol(s, b, q, st) == [symbol |-> s, baseAsset |-> b, quoteAsset |-> q, status |-> st]

\* every combination of field values, used for feeds of one record
BinanceSymbols ==
    {BinanceSymbol(sb[1], sb[2], q, st) :
        sb \in {<<ETHUSDT, ETH>>, <<BTCUSD, BTC>>, <<Missing, BTC>>, <<BTCUSD, Missing>>},
        q \in {Missing, USD, USDT, ZUSD, EUR},
        st \in {Missing, TRADING, BREAK}}

\* the records combined in longer feeds
BinanceEntries ==
    {BinanceSymbol(ETHUSDT, ETH, USDT, TRADING),
     BinanceSymbol(BTCUSD, BTC, USD, TRADING),
     BinanceSymbol(ETHUSD, ETH, USD, BREAK),
     BinanceSymbol(ETHUSD, ETH, USD, Missing)}

BinanceFeeds ==
    {<<>>}
    \cup {<<e>> : e \in BinanceSymbols}
    \cup UNION {[1..n -> BinanceEntries] : n \in 2..MaxFeed}

BinanceData(keys, feed) == [keys |-> keys, error |-> <<>>, result |-> <<>>, symbols |-> feed]

BinanceResponses ==
    FailedResponses
    \cup {[kind |-> "ok", data |-> BinanceData({"symbols"}, f)] : f \in BinanceFeeds}
    \cup {[kind |-> "ok", data |-> BinanceData({}, <<>>)]}

(***************************************************************************)
(* A fetcher called on its own: fetch_pairs(quote_assets) on one response. *)
(***************************************************************************)
InitFetch ==
    /\ pc = "direct"
    /\ exchanges = <<>>
    /\ quote_assets \in QuoteLists
    /\ all_results = <<>>
    /\ fetcher \in {Binance, Kraken}
    /\ fpc = "begin"
    /\ response = NoResponse
    /\ http_calls = <<>>
    /\ data = NoData
    /\ results = <<>>
    /\ all_pairs = <<>>
    /\ search_assets = <<>>
    /\ idx = 1
    /\ ret = None
    /\ display_choice = ""
    /\ console = <<>>
    /\ files = <<>>
    /\ raised = "none"

NextFetch ==
    \/ BinanceBegin(BinanceResponses)
    \/ BinanceNoSymbols
    \/ BinanceIter
    \/ BinanceReturn
    \/ KrakenBegin(KrakenResponses)
    \/ KrakenNoResult
    \/ KrakenIter
    \/ KrakenReturn

SpecFetch == InitFetch /\ [][NextFetch]_vars

(***************************************************************************)
(* display_results                                                         *)
(***************************************************************************)
\* symbols per row of the detailed list (line 293)
Columns == 4
\* rows shown by the comparison table (lines 326, 342)
TableRows == 20
\* members shown as examples by the common-pairs report (lines 373-381)
Examples == 10

\* one printed or written line: its kind and the values formatted into it
Line(kind, exchange, asset, n, items, cells) ==
    [kind |-> kind, exchange |-> exchange, asset |-> asset, n |-> n, items |-> items, cells |-> cells]

\* ResultTruthy that lets the None of a failed fetch through
ResultTruthy_Always(result) == TRUE

\* `if result:` - None is falsy, the dict a fetch returns is never empty
ResultTruthy(result) == result # None

\* a None entry gets past `if result:` and is subscripted: TypeError
SubscriptsNone(rs) == \E i \in 1..Len(rs) : ResultTruthy(rs[i]) /\ rs[i] = None

\* the entries of all_results whose `if result:` block runs, in order
Shown(rs) == SelectSeq(rs, ResultTruthy)

\* AnyResult as `if all_results:` - true of a list of None entries
AnyResult_NonEmpty(rs) == rs # <<>>

\* any(all_results) (line 505)
AnyResult(rs) == \E i \in 1..Len(rs) : ResultTruthy(rs[i])

\* result['results'].get(asset, [])
ResultsGet(result, asset) ==
    IF asset \in DOMAIN result.results THEN result.results[asset] ELSE <<>>

\* lines 253-261 for one result
ExchangeSummary(result, qa) ==
    <<Line("exchange", result.exchange, <<>>, 0, <<>>, <<>>)>>
    \o Flatten([i \in 1..Len(qa) |->
            IF Len(ResultsGet(result, qa[i])) > 0
            THEN <<Line("count", result.exchange, qa[i], Len(ResultsGet(result, qa[i])), <<>>, <<>>)>>
            ELSE <<>>])
    \o <<Line("total", result.exchange, <<>>, result.total, <<>>, <<>>)>>

\* grand_total (lines 250, 262)
GrandTotal(rs) == Sum([i \in 1..Len(Shown(rs)) |-> Shown(rs)[i].total])

\* SummaryLines with the grand total printed only for several successful fetches
SummaryLines_SeveralShown(rs, qa) ==
    Flatten([i \in 1..Len(Shown(rs)) |-> ExchangeSummary(Shown(rs)[i], qa)])
    \o (IF Len(Shown(rs)) > 1
        THEN <<Line("grand_total", <<>>, <<>>, GrandTotal(rs), <<>>, <<>>)>>
        ELSE <<>>)

\* lines 249-265
SummaryLines(rs, qa) ==
    Flatten([i \in 1..Len(Shown(rs)) |-> ExchangeSummary(Shown(rs)[i], qa)])
    \o (IF Len(rs) > 1
        THEN <<Line("grand_total", <<>>, <<>>, GrandTotal(rs), <<>>, <<>>)>>
        ELSE <<>>)

\* lines 296-298: the symbols, Columns to a row
Rows(exchange, symbols) ==
    [r \in 1..((Len(symbols) + Columns - 1) \div Columns) |->
        Line("row", exchange, <<>>, 0,
             SubSeq(symbols, Columns * (r - 1) + 1,
                    IF Columns * r < Len(symbols) THEN Columns * r ELSE Len(symbols)),
             <<>>)]

\* lines 285-298 for one result and one requested code
DetailedAsset(result, asset) ==
    LET pairs == ResultsGet(result, asset)
        sorted_pairs == SortedBySymbol(pairs)
        symbols == [i \in 1..Len(sorted_pairs) |-> sorted_pairs[i].symbol]
    IN IF pairs # <<>>
       THEN <<Line("asset_header", result.exchange, asset, Len(pairs), <<>>, <<>>)>>
            \o Rows(result.exchange, symbols)
       ELSE <<>>

\* display choice 1 (lines 277-298)
DetailedLines(rs, qa) ==
    Flatten([i \in 1..Len(Shown(rs)) |->
        <<Line("pairs_header", Shown(rs)[i].exchange, <<>>, 0, <<>>, <<>>)>>
        \o Flatten([a \in 1..Len(qa) |-> DetailedAsset(Shown(rs)[i], qa[a])])])

\* all_bases (lines 308-312)
AllBases(rs) ==
    UNION {{Shown(rs)[i].all_pairs[j].baseAsset : j \in 1..Len(Shown(rs)[i].all_pairs)} :
            i \in 1..Len(Shown(rs))}

\* count (lines 331-334)
BaseCount(result, base) ==
    Cardinality({j \in 1..Len(result.all_pairs) : result.all_pairs[j].baseAsset = base})

\* ComparisonLines whose overflow notice counts every base asset
ComparisonLines_OverflowAll(rs) ==
    IF Len(rs) > 1
    THEN LET sorted_bases == SortedSet(AllBases(rs))
             shown_bases == Prefix(sorted_bases, TableRows)
         IN <<Line("table_header", <<>>, <<>>, 0,
                   [i \in 1..Len(Shown(rs)) |-> Shown(rs)[i].exchange], <<>>)>>
            \o [b \in 1..Len(shown_bases) |->
                    Line("table_row", <<>>, shown_bases[b], 0, <<>>,
                         [i \in 1..Len(Shown(rs)) |-> BaseCount(Shown(rs)[i], shown_bases[b])])]
            \o (IF Len(sorted_bases) > TableRows
                THEN <<Line("overflow", <<>>, <<>>, Len(sorted_bases), <<>>, <<>>)>>
                ELSE <<>>)
    ELSE <<>>

\* display choice 2 (lines 300-343)
ComparisonLines(rs) ==
    IF Len(rs) > 1
    THEN LET sorted_bases == SortedSet(AllBases(rs))
             shown_bases == Prefix(sorted_bases, TableRows)
         IN <<Line("table_header", <<>>, <<>>, 0,
                   [i \in 1..Len(Shown(rs)) |-> Shown(rs)[i].exchange], <<>>)>>
            \o [b \in 1..Len(shown_bases) |->
                    Line("table_row", <<>>, shown_bases[b], 0, <<>>,
                         [i \in 1..Len(Shown(rs)) |-> BaseCount(Shown(rs)[i], shown_bases[b])])]
            \o (IF Len(sorted_bases) > TableRows
                THEN <<Line("overflow", <<>>, <<>>, Len(sorted_bases) - TableRows, <<>>, <<>>)>>
                ELSE <<>>)
    ELSE <<>>

\* pairs_set (lines 357-361)
PairsSet(result) ==
    {result.all_pairs[j].baseAsset \o <<"/">> \o result.all_pairs[j].quoteAsset :
        j \in 1..Len(result.all_pairs)}

\* one count line of the common-pairs report and its examples (lines 371-381)
CountAndExamples(kind, exchange, members) ==
    <<Line(kind, exchange, <<>>, Cardinality(members), <<>>, <<>>)>>
    \o (IF Cardinality(members) > 0
        THEN <<Line("examples", exchange, <<>>, 0, Prefix(SortedSet(members), Examples), <<>>)>>
        ELSE <<>>)

\* CommonLines that reports each exchange's whole set as its own
CommonLines_NoDifference(rs) ==
    IF Len(rs) > 1
    THEN LET names == [i \in 1..Len(Shown(rs)) |-> Shown(rs)[i].exchange]
             exchanges_ == DictKeys(names)
             pairs_of(name) ==
                PairsSet(Shown(rs)[CHOOSE i \in 1..Len(names) :
                    names[i] = name /\ \A j \in (i + 1)..Len(names) : names[j] # name])
         IN IF Len(exchanges_) = 2
            THEN LET first == pairs_of(exchanges_[1])
                     second == pairs_of(exchanges_[2])
                 IN CountAndExamples("common", <<>>, first \cap second)
                    \o CountAndExamples("only", exchanges_[1], first)
                    \o CountAndExamples("only", exchanges_[2], second)
            ELSE <<>>
    ELSE <<>>

\* display choice 3 (lines 345-381); exchanges_pairs is keyed by exchange name
CommonLines(rs) ==
    IF Len(rs) > 1
    THEN LET names == [i \in 1..Len(Shown(rs)) |-> Shown(rs)[i].exchange]
             exchanges_ == DictKeys(names)
             pairs_of(name) ==
                PairsSet(Shown(rs)[CHOOSE i \in 1..Len(names) :
                    names[i] = name /\ \A j \in (i + 1)..Len(names) : names[j] # name])
         IN IF Len(exchanges_) = 2
            THEN LET first == pairs_of(exchanges_[1])
                     second == pairs_of(exchanges_[2])
                 IN CountAndExamples("common", <<>>, first \cap second)
                    \o CountAndExamples("only", exchanges_[1], first \ second)
                    \o CountAndExamples("only", exchanges_[2], second \ first)
            ELSE <<>>
    ELSE <<>>

\* display_results (lines 240-381) for one answer to the display prompt
DisplayOutput(rs, qa, choice) ==
    SummaryLines(rs, qa)
    \o (IF choice = "1" THEN DetailedLines(rs, qa)
        ELSE IF choice = "2" THEN ComparisonLines(rs)
        ELSE IF choice = "3" THEN CommonLines(rs)
        ELSE <<>>)

(***************************************************************************)
(* save_results                                                            *)
(***************************************************************************)
\* one written file: which export it is, the exchange in its name, its content
File(kind, exchange, content) == [kind |-> kind, exchange |-> exchange, content |-> content]

\* the JSON export (lines 398-404)
JsonFile(rs, qa) == File("json", <<>>, <<[quote_assets |-> qa, exchanges |-> rs]>>)

\* the CSV export (lines 408-418)
CsvFiles(rs, pandas) ==
    LET csv_pairs == Flatten([i \in 1..Len(Shown(rs)) |-> Shown(rs)[i].all_pairs])
    IN IF pandas /\ csv_pairs # <<>> THEN <<File("csv", <<>>, csv_pairs)>> ELSE <<>>

\* lines 433-438 for one result and one requested code
TxtAsset(result, asset) ==
    LET pairs == ResultsGet(result, asset)
        sorted_pairs == SortedBySymbol(pairs)
    IN IF pairs # <<>>
       THEN <<Line("asset_header", result.exchange, asset, 0, <<>>, <<>>)>>
            \o [i \in 1..Len(sorted_pairs) |->
                    Line("symbol", result.exchange, asset, 0, <<sorted_pairs[i].symbol>>, <<>>)]
       ELSE <<>>

\* the plain-text list (lines 421-438)
TxtFile(rs, qa) ==
    File("txt", <<>>,
         <<Line("title", <<>>, <<>>, 0, qa, <<>>)>>
         \o Flatten([i \in 1..Len(Shown(rs)) |->
                <<Line("exchange", Shown(rs)[i].exchange, <<>>, Shown(rs)[i].total, <<>>, <<>>)>>
                \o Flatten([a \in 1..Len(qa) |-> TxtAsset(Shown(rs)[i], qa[a])])]))

\* TvLines that writes the pairs in the order the API listed them
TvLines_Unsorted(result, qa) ==
    Flatten([a \in 1..Len(qa) |->
        LET pairs == ResultsGet(result, qa[a])
        IN [i \in 1..Len(pairs) |->
                Upper(result.exchange) \o <<":">> \o pairs[i].symbol]])

\* the lines EXCHANGE:SYMBOL of one result (lines 456-460 and 471-474)
TvLines(result, qa) ==
    Flatten([a \in 1..Len(qa) |->
        LET sorted_pairs == SortedBySymbol(ResultsGet(result, qa[a]))
        IN [i \in 1..Len(sorted_pairs) |->
                Upper(result.exchange) \o <<":">> \o sorted_pairs[i].symbol]])

\* TvFiles that writes the combined file only for several successful fetches
TvFiles_SeveralShown(rs, qa) ==
    [i \in 1..Len(Shown(rs)) |->
        File("tv", Upper(Shown(rs)[i].exchange), TvLines(Shown(rs)[i], qa))]
    \o (IF Len(Shown(rs)) > 1
        THEN <<File("tv_all", <<>>, Flatten([i \in 1..Len(Shown(rs)) |-> TvLines(Shown(rs)[i], qa)]))>>
        ELSE <<>>)

\* the TradingView files (lines 444-475)
TvFiles(rs, qa) ==
    [i \in 1..Len(Shown(rs)) |->
        File("tv", Upper(Shown(rs)[i].exchange), TvLines(Shown(rs)[i], qa))]
    \o (IF Len(rs) > 1
        THEN <<File("tv_all", <<>>, Flatten([i \in 1..Len(Shown(rs)) |-> TvLines(Shown(rs)[i], qa)]))>>
        ELSE <<>>)

\* save_results (lines 383-479) for one answer to the TradingView prompt
SavedFiles(rs, qa, pandas, tv_choice) ==
    <<JsonFile(rs, qa)>>
    \o CsvFiles(rs, pandas)
    \o <<TxtFile(rs, qa)>>
    \o (IF tv_choice = "y" THEN TvFiles(rs, qa) ELSE <<>>)

(***************************************************************************)
(* main and its prompts                                                    *)
(***************************************************************************)
\* get_exchange_choice (lines 183-201): asks again until the answer is 1-3
ExchangeChoice(choice) ==
    IF choice = "1" THEN <<binance>>
    ELSE IF choice = "2" THEN <<kraken>>
    ELSE <<binance, kraken>>

\* the custom branch of get_asset_choice (lines 231-232)
ParseCustom(custom) ==
    LET parts == Split(Upper(Strip(custom)))
    IN SelectSeq([i \in 1..Len(parts) |-> Strip(parts[i])], LAMBDA a : a # <<>>)

\* get_asset_choice (lines 203-238); an empty custom list is asked again
AssetChoice(choice, custom) ==
    IF choice = "1" THEN <<USD>>
    ELSE IF choice = "2" THEN <<USDT>>
    ELSE IF choice = "3" THEN <<USDC>>
    ELSE IF choice = "4" THEN <<USD, USDT, USDC>>
    ELSE IF choice = "5" THEN <<EUR>>
    ELSE IF choice = "6" THEN <<USD, USDT, USDC, EUR, GBP>>
    ELSE ParseCustom(custom)

\* what the user types at the custom prompt
CustomInputs ==
    {<<"u", "s", "d", ",", "u", "s", "d">>,
     <<"z", "u", "s", "d", ",", "U", "S", "D">>,
     <<" ", "u", "s", "d", "t", " ", ",", " ", "u", "s", "d", ",">>,
     <<" ", ",", " ">>}

\* a feed of MaxBases USD pairs with one-letter base assets, last letter first
WideFeed ==
    [i \in 1..MaxBases |->
        BinanceSymbol(<<UpperCase[MaxBases + 1 - i]>> \o USD, <<UpperCase[MaxBases + 1 - i]>>, USD, TRADING)]

\* the responses the two APIs may give during a run of main
MainBinanceResponses ==
    {[kind |-> "transport_error", data |-> NoData],
     [kind |-> "ok", data |-> BinanceData({"symbols"}, WideFeed)],
     [kind |-> "ok", data |-> BinanceData({"symbols"},
        <<BinanceSymbol(ETHUSDT, ETH, USDT, TRADING),
          BinanceSymbol(ETHUSD, ETH, USD, TRADING),
          BinanceSymbol(BTCUSD, BTC, USD, TRADING),
          BinanceSymbol(ETHUSD, ETH, USD, BREAK)>>)],
     [kind |-> "ok", data |-> BinanceData({"symbols"},
        <<BinanceSymbol(BTCUSD, BTC, USD, TRADING),
          BinanceSymbol(ETHUSD, ETH, USD, Missing)>>)],
     [kind |-> "ok", data |-> BinanceData({}, <<>>)]}

MainKrakenResponses ==
    {[kind |-> "http_error", data |-> NoData],
     [kind |-> "ok", data |-> KrakenData({"error", "result"}, << <<"E">> >>, <<>>)],
     [kind |-> "ok", data |-> KrakenData({"error", "result"}, <<>>,
        << <<XXBTZUSD, KrakenInfo(ZUSD, XXBT, BTC_USD, XBTUSD)>>,
           <<ETHUSDd, KrakenInfo(USDT, ETH, Missing, ETHUSDT)>>,
           <<ETHUSD, KrakenInfo(USD, ETH, Missing, Missing)>>,
           <<XBTUSD_d, KrakenInfo(ZUSD, XXBT, BTC_USD, XBTUSD)>> >>)],
     [kind |-> "ok", data |-> KrakenData({"error"}, <<>>, <<>>)]}

\* lines 488-489
GetExchangeChoice ==
    /\ pc = "start"
    /\ \E choice \in {"1", "2", "3"} : exchanges' = ExchangeChoice(choice)
    /\ pc' = "assets"
    /\ UNCHANGED <<quote_assets, all_results, display_choice, console, files, raised, fetchvars>>

GetAssetChoice ==
    /\ pc = "assets"
    /\ \E choice \in {"1", "2", "3", "4", "5", "6", "7"}, custom \in CustomInputs :
        /\ AssetChoice(choice, custom) # <<>>
        /\ quote_assets' = AssetChoice(choice, custom)
    /\ pc' = "fetch_binance"
    /\ UNCHANGED <<exchanges, all_results, display_choice, console, files, raised, fetchvars>>

\* lines 494-496: main calls BinanceFetcher().fetch_pairs
MainFetchBinance ==
    /\ pc = "fetch_binance"
    /\ binance \in Range(exchanges)
    /\ fetcher' = Binance
    /\ fpc' = "begin"
    /\ pc' = "in_binance"
    /\ UNCHANGED <<exchanges, quote_assets, all_results, display_choice, console, files, raised>>
    /\ UNCHANGED <<response, http_calls, data, results, all_pairs, search_assets, idx, ret>>

\* line 494 when Binance was not chosen
MainSkipBinance ==
    /\ pc = "fetch_binance"
    /\ binance \notin Range(exchanges)
    /\ pc' = "fetch_kraken"
    /\ UNCHANGED <<exchanges, quote_assets, all_results, display_choice, console, files, raised, fetchvars>>

\* MainAppendBinance that calls fetch_pairs again when it returned None
MainAppendBinance_Retry ==
    /\ pc = "in_binance"
    /\ fpc = "returned"
    /\ IF ret = None
       THEN /\ fpc' = "begin"
            /\ UNCHANGED <<all_results, fetcher, pc>>
       ELSE /\ all_results' = Append(all_results, ret)
            /\ fetcher' = <<>>
            /\ fpc' = "idle"
            /\ pc' = "fetch_kraken"
    /\ UNCHANGED <<exchanges, quote_assets, display_choice, console, files, raised>>
    /\ UNCHANGED <<response, http_calls, data, results, all_pairs, search_assets, idx, ret>>

\* line 497
MainAppendBinance ==
    /\ pc = "in_binance"
    /\ fpc = "returned"
    /\ all_results' = Append(all_results, ret)
    /\ fetcher' = <<>>
    /\ fpc' = "idle"
    /\ pc' = "fetch_kraken"
    /\ UNCHANGED <<exchanges, quote_assets, display_choice, console, files, raised>>
    /\ UNCHANGED <<response, http_calls, data, results, all_pairs, search_assets, idx, ret>>

\* lines 499-501: main calls KrakenFetcher().fetch_pairs
MainFetchKraken ==
    /\ pc = "fetch_kraken"
    /\ kraken \in Range(exchanges)
    /\ fetcher' = Kraken
    /\ fpc' = "begin"
    /\ pc' = "in_kraken"
    /\ UNCHANGED <<exchanges, quote_assets, all_results, display_choice, console, files, raised>>
    /\ UNCHANGED <<response, http_calls, data, results, all_pairs, search_assets, idx, ret>>

\* line 499 when Kraken was not chosen
MainSkipKraken ==
    /\ pc = "fetch_kraken"
    /\ kraken \notin Range(exchanges)
    /\ pc' = "report"
    /\ UNCHANGED <<exchanges, quote_assets, all_results, display_choice, console, files, raised, fetchvars>>

\* line 502
MainAppendKraken ==
    /\ pc = "in_kraken"
    /\ fpc = "returned"
    /\ all_results' = Append(all_results, ret)
    /\ fetcher' = <<>>
    /\ fpc' = "idle"
    /\ pc' = "report"
    /\ UNCHANGED <<exchanges, quote_assets, display_choice, console, files, raised>>
    /\ UNCHANGED <<response, http_calls, data, results, all_pairs, search_assets, idx, ret>>

\* MainDisplay that sorts the lists of pairs in place (pairs.sort) to show them
MainDisplay_SortsInPlace ==
    /\ pc = "report"
    /\ AnyResult(all_results)
    /\ \E choice \in {"1", "2", "3", "4"} :
        IF SubscriptsNone(all_results)
        THEN /\ raised' = "TypeError"
             /\ pc' = "crashed"
             /\ UNCHANGED <<display_choice, console, all_results>>
        ELSE /\ display_choice' = choice
             /\ console' = DisplayOutput(all_results, quote_assets, choice)
             /\ all_results' =
                    [i \in 1..Len(all_results) |->
                        IF all_results[i] = None \/ choice # "1" THEN all_results[i]
                        ELSE [all_results[i] EXCEPT !.results =
                                [k \in DOMAIN @ |-> SortedBySymbol(@[k])]]]
             /\ pc' = "save_prompt"
             /\ UNCHANGED raised
    /\ UNCHANGED <<exchanges, quote_assets, files, fetchvars>>

\* lines 505-506: display_results runs, for one answer to its prompt
MainDisplay ==
    /\ pc = "report"
    /\ AnyResult(all_results)
    /\ \E choice \in {"1", "2", "3", "4"} :
        IF SubscriptsNone(all_results)
        THEN /\ raised' = "TypeError"
             /\ pc' = "crashed"
             /\ UNCHANGED <<display_choice, console>>
        ELSE /\ display_choice' = choice
             /\ console' = DisplayOutput(all_results, quote_assets, choice)
             /\ pc' = "save_prompt"
             /\ UNCHANGED raised
    /\ UNCHANGED <<exchanges, quote_assets, all_results, files, fetchvars>>

\* lines 514-515: nothing was fetched
MainFailed ==
    /\ pc = "report"
    /\ ~AnyResult(all_results)
    /\ pc' = "failed"
    /\ UNCHANGED <<exchanges, quote_assets, all_results, display_choice, console, files, raised, fetchvars>>

\* lines 509-513 with the answer y: save_results runs
MainSave ==
    /\ pc = "save_prompt"
    /\ \E pandas \in BOOLEAN, tv_choice \in {"y", "n"} :
        IF SubscriptsNone(all_results)
        THEN /\ raised' = "TypeError"
             /\ pc' = "crashed"
             /\ UNCHANGED files
        ELSE /\ files' = files \o SavedFiles(all_results, quote_assets, pandas, tv_choice)
             /\ pc' = "done"
             /\ UNCHANGED raised
    /\ UNCHANGED <<exchanges, quote_assets, all_results, display_choice, console, fetchvars>>

\* lines 509-513 with any other answer
MainNoSave ==
    /\ pc = "save_prompt"
    /\ pc' = "done"
    /\ UNCHANGED <<exchanges, quote_assets, all_results, display_choice, console, files, raised, fetchvars>>

Init ==
    /\ pc = "start"
    /\ exchanges = <<>>
    /\ quote_assets = <<>>
    /\ all_results = <<>>
    /\ fetcher = <<>>
    /\ fpc = "idle"
    /\ response = NoResponse
    /\ http_calls = <<>>
    /\ data = NoData
    /\ results = <<>>
    /\ all_pairs = <<>>
    /\ search_assets = <<>>
    /\ idx = 1
    /\ ret = None
    /\ display_choice = ""
    /\ console = <<>>
    /\ files = <<>>
    /\ raised = "none"

Next ==
    \/ GetExchangeChoice
    \/ GetAssetChoice
    \/ MainFetchBinance
    \/ MainSkipBinance
    \/ BinanceBegin(MainBinanceResponses)
    \/ BinanceNoSymbols
    \/ BinanceIter
    \/ BinanceReturn
    \/ MainAppendBinance
    \/ MainFetchKraken
    \/ MainSkipKraken
    \/ KrakenBegin(MainKrakenResponses)
    \/ KrakenNoResult
    \/ KrakenIter
    \/ KrakenReturn
    \/ MainAppendKraken
    \/ MainDisplay
    \/ MainFailed
    \/ MainSave
    \/ MainNoSave

Spec == Init /\ [][Next]_vars

(***************************************************************************)
(* Properties of the fetchers (checked under SpecFetch).                   *)
(***************************************************************************)
\* the pair records held by the running or finished Kraken fetch
KrakenRecorded ==
    IF fetcher = Kraken
    THEN Range(all_pairs) \cup UNION {Range(results[k]) : k \in DOMAIN results}
    ELSE {}

\* the raw pair_info a Kraken record was made from
RawInfoOf(pair_name) ==
    data.result[CHOOSE i \in 1..Len(data.result) : data.result[i][1] = pair_name][2]

RawQuoteOf(p) == Get(RawInfoOf(p.kraken_pair).quote, <<>>)
RawBaseOf(p) == Get(RawInfoOf(p.kraken_pair).base, <<>>)

\* a fetch_pairs call of the named fetcher returned a result dict
Succeeded(name) == fetcher = name /\ fpc = "returned" /\ ret # None

\* the records of a returned Kraken result made from the raw pair pair_name
RecordsOf(pair_name) == {j \in 1..Len(ret.all_pairs) : ret.all_pairs[j].kraken_pair = pair_name}

\* position of the first occurrence of a in the list qa
FirstIndex(qa, a) == CHOOSE i \in 1..Len(qa) : qa[i] = a /\ \A j \in 1..(i - 1) : qa[j] # a

\* a is requested, and requested before the first b
RequestedBefore(qa, a, b) ==
    /\ a \in Range(qa)
    /\ b \in Range(qa)
    /\ FirstIndex(qa, a) < FirstIndex(qa, b)

\* the canonical codes that have a legacy Z-prefixed alias
LegacyCodes == {USD, EUR, GBP, JPY, CAD, AUD}
ZForm(c) == <<"Z">> \o c
AliasSet(c) == IF c \in LegacyCodes THEN {c, ZForm(c)} ELSE {c}

\* the raw entry of the example: base XXBT, quote ZUSD, wsname BTC/USD
IsExampleEntry(pair_info) ==
    /\ pair_info.isdict
    /\ pair_info.base = XXBT
    /\ pair_info.quote = ZUSD
    /\ pair_info.wsname = BTC_USD

\* C1 as stated: with USD among the requested codes, the raw Kraken entry
\* {base XXBT, quote ZUSD, wsname BTC/USD} yields a record with symbol BTCUSD,
\* baseAsset BTC and quoteAsset USD.
C1_ExampleAsStated ==
    (Succeeded(Kraken) /\ USD \in Range(quote_assets)) =>
        \A i \in 1..Len(data.result) :
            IsExampleEntry(data.result[i][2]) =>
                \E j \in RecordsOf(data.result[i][1]) :
                    /\ ret.all_pairs[j].symbol = BTCUSD
                    /\ ret.all_pairs[j].baseAsset = BTC
                    /\ ret.all_pairs[j].quoteAsset = USD

\* C1 amended: with USD requested and ZUSD not requested before it, the raw
\* Kraken entry {base XXBT, quote ZUSD, wsname BTC/USD} keyed by a pair name
\* without ".d" yields exactly one record, with symbol BTCUSD, baseAsset XBT
\* (the raw base without its first character) and quoteAsset USD, filed
\* under results[USD].
C1_ExampleAmended ==
    (Succeeded(Kraken) /\ USD \in Range(quote_assets)
        /\ ~RequestedBefore(quote_assets, ZUSD, USD)) =>
        \A i \in 1..Len(data.result) :
            (IsExampleEntry(data.result[i][2]) /\ ~Contains(data.result[i][1], <<".", "d">>)) =>
                /\ Cardinality(RecordsOf(data.result[i][1])) = 1
                /\ \A j \in RecordsOf(data.result[i][1]) :
                    /\ ret.all_pairs[j].symbol = BTCUSD
                    /\ ret.all_pairs[j].baseAsset = XBT
                    /\ ret.all_pairs[j].quoteAsset = USD
                    /\ ret.all_pairs[j] \in Range(ret.results[USD])

C1_Witness ==
    /\ Succeeded(Kraken)
    /\ USD \in Range(quote_assets)
    /\ \E i \in 1..Len(data.result) :
        /\ IsExampleEntry(data.result[i][2])
        /\ \E j \in RecordsOf(data.result[i][1]) :
            /\ ret.all_pairs[j].symbol = BTCUSD
            /\ ret.all_pairs[j].baseAsset = XBT
            /\ ret.all_pairs[j].quoteAsset = USD

\* the raw pairs of a returned Kraken feed that are quoted in the bare or
\* Z-prefixed form of the canonical code c
QuotedIn(c) ==
    {i \in 1..Len(data.result) :
        /\ ~Contains(data.result[i][1], <<".", "d">>)
        /\ data.result[i][2].isdict
        /\ data.result[i][2].quote \in {c, ZForm(c)}}

\* C2 as stated: for every requested canonical code with a legacy alias, a
\* raw pair quoted in the bare or Z-prefixed form is recorded with quoteAsset
\* equal to the canonical code, also when the raw alias itself is requested.
C2_CanonicalAsStated ==
    Succeeded(Kraken) =>
        \A c \in LegacyCodes \cap Range(quote_assets) :
            \A i \in QuotedIn(c) :
                /\ RecordsOf(data.result[i][1]) # {}
                /\ \A j \in RecordsOf(data.result[i][1]) : ret.all_pairs[j].quoteAsset = c

\* C2 amended: such a pair is recorded with quoteAsset equal to the canonical
\* code unless its raw quote code was itself requested earlier in the list
\* than the canonical code; in that case it is recorded with the raw alias
\* as quoteAsset.
C2_CanonicalAmended ==
    Succeeded(Kraken) =>
        \A c \in LegacyCodes \cap Range(quote_assets) :
            \A i \in QuotedIn(c) :
                /\ RecordsOf(data.result[i][1]) # {}
                /\ \A j \in RecordsOf(data.result[i][1]) :
                    ret.all_pairs[j].quoteAsset =
                        IF RequestedBefore(quote_assets, data.result[i][2].quote, c)
                        THEN data.result[i][2].quote
                        ELSE c

C2_Witness ==
    /\ Succeeded(Kraken)
    /\ ZUSD \notin Range(quote_assets)
    /\ \E i \in QuotedIn(USD) :
        /\ data.result[i][2].quote = ZUSD
        /\ \E j \in RecordsOf(data.result[i][1]) : ret.all_pairs[j].quoteAsset = USD

\* C3: every pair record of a successful Binance or Kraken result, in
\* all_pairs and in every results[...] list, has a quoteAsset that is one of
\* the requested quote codes.
C3_QuoteAssetRequested ==
    (fpc = "returned" /\ ret # None) =>
        \A p \in Range(ret.all_pairs) \cup UNION {Range(ret.results[k]) : k \in DOMAIN ret.results} :
            p.quoteAsset \in Range(quote_assets)

C3_Witness ==
    /\ Succeeded(Kraken)
    /\ \E p \in Range(ret.all_pairs) :
        /\ RawQuoteOf(p) # p.quoteAsset
        /\ RawQuoteOf(p) \notin Range(quote_assets)

\* C4: for every recorded Kraken pair, baseAsset is the raw base without its
\* first character when the raw base has length 4 and starts with X or Z,
\* and the raw base unchanged otherwise.
C4_BaseCanonical ==
    \A p \in KrakenRecorded :
        p.baseAsset =
            IF Len(RawBaseOf(p)) = 4 /\ RawBaseOf(p)[1] \in {"X", "Z"}
            THEN Tail(RawBaseOf(p))
            ELSE RawBaseOf(p)

C4_Witness ==
    /\ Succeeded(Kraken)
    /\ \E p \in Range(ret.all_pairs) : RawBaseOf(p) = XXBT /\ p.baseAsset = XBT
    /\ \E p \in Range(ret.all_pairs) : RawBaseOf(p) = ETH /\ p.baseAsset = ETH

\* the Kraken processing loop ended in the except branch
KrakenLoopFailed ==
    /\ fetcher = Kraken
    /\ fpc = "returned"
    /\ ret = None
    /\ response.kind = "ok"
    /\ {"error", "result"} \subseteq response.data.keys
    /\ response.data.error = <<>>

\* C5: no raw Kraken pair whose name contains ".d" is ever recorded, and such
\* a pair is dropped before anything of it is read: it never makes the fetch
\* fail, whatever its fields hold.
C5_FuturesExcluded ==
    /\ \A p \in KrakenRecorded : ~Contains(p.kraken_pair, <<".", "d">>)
    /\ KrakenLoopFailed => ~Contains(data.result[idx][1], <<".", "d">>)

C5_Witness ==
    /\ Succeeded(Kraken)
    /\ ret.total = 0
    /\ \E i \in 1..Len(data.result) :
        /\ data.result[i][1] = X_dUSD
        /\ data.result[i][2].isdict
        /\ data.result[i][2].quote \in Range(quote_assets)

\* C6: the symbol of every recorded Kraken pair is wsname without any "/"
\* when wsname is present and non-empty, otherwise altname when present,
\* otherwise the raw pair name.
C6_SymbolPriority ==
    \A p \in KrakenRecorded :
        LET info == RawInfoOf(p.kraken_pair)
        IN p.symbol =
            IF info.wsname \notin {Missing, NoneVal, <<>>}
            THEN SelectSeq(info.wsname, LAMBDA ch : ch # "/")
            ELSE IF info.altname # Missing
                 THEN info.altname
                 ELSE p.kraken_pair

C6_Witness ==
    /\ Succeeded(Kraken)
    /\ \E p \in Range(ret.all_pairs) :
        /\ RawInfoOf(p.kraken_pair).wsname = ETH_USD_T
        /\ RawInfoOf(p.kraken_pair).altname = XBTUSD
        /\ p.symbol = ETHUSDT

\* the raw Binance records that are to be kept, in feed order
BinanceExpected ==
    SelectSeq(data.symbols,
              LAMBDA s : s.quoteAsset \in Range(quote_assets) /\ s.status = TRADING)

\* C7: a successful Binance fetch returns exactly the raw records whose
\* quoteAsset is requested and whose status is TRADING, each once and in feed
\* order, with symbol, baseAsset and quoteAsset verbatim and exchange Binance.
C7_BinanceExact ==
    Succeeded(Binance) =>
        /\ Len(ret.all_pairs) = Len(BinanceExpected)
        /\ \A i \in 1..Len(BinanceExpected) :
            ret.all_pairs[i] =
                [symbol |-> BinanceExpected[i].symbol,
                 baseAsset |-> BinanceExpected[i].baseAsset,
                 quoteAsset |-> BinanceExpected[i].quoteAsset,
                 exchange |-> Binance]

C7_Witness ==
    /\ Succeeded(Binance)
    /\ ret.total = 1
    /\ Len(data.symbols) = 2
    /\ data.symbols[1].status = BREAK
    /\ data.symbols[1].quoteAsset \in Range(quote_assets)
    /\ ret.all_pairs[1].symbol = data.symbols[2].symbol

\* the requested codes whose alias set holds the raw quote code q
MatchingCodes(q) == {c \in Range(quote_assets) : q \in AliasSet(c)}

\* C8: every raw Kraken pair is recorded at most once in all_pairs and at
\* most once over all results[...] lists, under the requested code that comes
\* first in request order among those whose alias set holds its raw quote.
C8_FirstMatchOnly ==
    (fetcher = Kraken /\ fpc \in {"loop", "returned"} /\ "result" \in data.keys) =>
        \A i \in 1..Len(data.result) :
            LET name == data.result[i][1]
                inAll == {j \in 1..Len(all_pairs) : all_pairs[j].kraken_pair = name}
                inRes == {kj \in UNION {{k} \X (1..Len(results[k])) : k \in DOMAIN results} :
                            results[kj[1]][kj[2]].kraken_pair = name}
            IN /\ Cardinality(inAll) <= 1
               /\ Cardinality(inRes) <= 1
               /\ \A j \in inAll :
                    /\ all_pairs[j].quoteAsset \in MatchingCodes(RawQuoteOf(all_pairs[j]))
                    /\ \A c \in MatchingCodes(RawQuoteOf(all_pairs[j])) :
                        FirstIndex(quote_assets, all_pairs[j].quoteAsset) <= FirstIndex(quote_assets, c)
               /\ \A kj \in inRes : results[kj[1]][kj[2]].quoteAsset = kj[1]
               /\ Cardinality(inAll) = Cardinality(inRes)

C8_Witness ==
    /\ Succeeded(Kraken)
    /\ \E p \in Range(ret.all_pairs) :
        /\ Cardinality(MatchingCodes(RawQuoteOf(p))) = 2
        /\ p.quoteAsset = USD
        /\ RequestedBefore(quote_assets, USD, ZUSD)

\* the payload of the response is one the processing cannot get through:
\* a missing top-level key, a Kraken error report, or a raw entry the loop
\* reads that lacks a field or holds a value of the wrong type
MalformedPayload ==
    IF fetcher = Binance
    THEN \/ "symbols" \notin response.data.keys
         \/ \E i \in 1..Len(response.data.symbols) :
              LET s == response.data.symbols[i]
              IN \/ s.quoteAsset = Missing
                 \/ /\ s.quoteAsset \in Range(quote_assets)
                    /\ \/ s.status = Missing
                       \/ s.status = TRADING /\ Missing \in {s.symbol, s.baseAsset}
    ELSE \/ ~({"error", "result"} \subseteq response.data.keys)
         \/ response.data.error # <<>>
         \/ \E i \in 1..Len(response.data.result) :
              LET name == response.data.result[i][1]
                  info == response.data.result[i][2]
              IN /\ ~Contains(name, <<".", "d">>)
                 /\ \/ ~info.isdict
                    \/ /\ MatchingCodes(Get(info.quote, <<>>)) # {}
                       /\ \/ info.base \in {NoneVal, NumVal}
                          \/ info.wsname = NumVal

\* the raw entries of the payload that match the request
MatchingEntries ==
    IF fetcher = Binance
    THEN {i \in 1..Len(response.data.symbols) :
            /\ response.data.symbols[i].quoteAsset \in Range(quote_assets)
            /\ response.data.symbols[i].status = TRADING}
    ELSE {i \in 1..Len(response.data.result) :
            /\ ~Contains(response.data.result[i][1], <<".", "d">>)
            /\ MatchingCodes(Get(response.data.result[i][2].quote, <<>>)) # {}}

\* C9: a fetch that meets a transport failure, a non-success status, an
\* undecodable or malformed payload or a Kraken error report returns None and
\* never what it had accumulated; any other fetch returns a result that
\* covers the whole feed, with total = 0 (and not None) when nothing matched.
C9_FailureIsNone ==
    fpc = "returned" =>
        IF response.kind # "ok" \/ MalformedPayload
        THEN ret = None
        ELSE /\ ret # None
             /\ ret.exchange = fetcher
             /\ ret.total = Cardinality(MatchingEntries)
             /\ Len(ret.all_pairs) = ret.total
             /\ MatchingEntries = {} => \A k \in DOMAIN ret.results : ret.results[k] = <<>>

\* a failure in the processing loop after a first pair had been accumulated
C9_Witness ==
    /\ fpc = "returned"
    /\ ret = None
    /\ response.kind = "ok"
    /\ all_pairs # <<>>
    /\ idx > 1

(***************************************************************************)
(* Properties of a run of main (checked under Spec).                       *)
(***************************************************************************)
\* both exchanges were asked for and exactly one of the two fetches failed
OneFetchFailed ==
    /\ exchanges = <<binance, kraken>>
    /\ Len(all_results) = 2
    /\ Cardinality({i \in 1..2 : all_results[i] = None}) = 1

\* the outcome of the fetch that succeeded
Survivor == all_results[CHOOSE i \in 1..2 : all_results[i] # None]

SurvivorSymbols == {Survivor.all_pairs[j].symbol : j \in 1..Len(Survivor.all_pairs)}
SurvivorBases == {Survivor.all_pairs[j].baseAsset : j \in 1..Len(Survivor.all_pairs)}

\* a printed or written line holds nothing but data of the surviving result
LineOfSurvivor(line) ==
    /\ line.exchange \in {<<>>, Survivor.exchange}
    /\ line.kind \in {"row", "symbol"} => Range(line.items) \subseteq SurvivorSymbols
    /\ line.kind = "table_header" => line.items = <<Survivor.exchange>>
    /\ line.kind = "table_row" => line.asset \in SurvivorBases /\ Len(line.cells) = 1
    /\ line.kind \in {"total", "grand_total"} => line.n = Survivor.total
    /\ line.kind \notin {"common", "only", "examples"}

\* a TradingView file holds nothing but lines of the surviving result
TvOfSurvivor(file) ==
    /\ file.kind = "tv" => file.exchange = Upper(Survivor.exchange)
    /\ \A l \in 1..Len(file.content) :
        \E sym \in SurvivorSymbols :
            file.content[l] = Upper(Survivor.exchange) \o <<":">> \o sym

\* C10: when both exchanges are requested and exactly one fetch returns None,
\* the other fetch has still run, display_results is reached and not the
\* failure message, nothing raises in display_results or save_results, and
\* the summary, the detailed list, the text list and the TradingView files
\* hold only data of the exchange that succeeded.
C10_OneFailureTolerated ==
    /\ (exchanges = <<binance, kraken>> /\ pc \in {"report", "save_prompt", "done", "failed", "crashed"})
            => Len(all_results) = 2
    /\ OneFetchFailed =>
        /\ raised = "none"
        /\ pc \notin {"failed", "crashed"}
        /\ pc = "report" => AnyResult(all_results)
        /\ pc \in {"save_prompt", "done"} =>
            /\ \E l \in 1..Len(console) :
                console[l].kind = "total" /\ console[l].exchange = Survivor.exchange
            /\ \A l \in 1..Len(console) : LineOfSurvivor(console[l])
        /\ \A f \in 1..Len(files) :
            /\ files[f].kind = "txt" =>
                /\ \E l \in 1..Len(files[f].content) :
                    files[f].content[l].kind = "exchange"
                /\ \A l \in 1..Len(files[f].content) :
                    files[f].content[l].kind # "title" => LineOfSurvivor(files[f].content[l])
            /\ files[f].kind \in {"tv", "tv_all"} => TvOfSurvivor(files[f])
        /\ Cardinality({f \in 1..Len(files) : files[f].kind = "tv"}) <= 1

\* Binance failed, Kraken succeeded, the detailed list was shown and the
\* TradingView files were written
C10_Witness ==
    /\ OneFetchFailed
    /\ all_results[1] = None
    /\ pc = "done"
    /\ \E l \in 1..Len(console) : console[l].kind = "row"
    /\ \E f \in 1..Len(files) : files[f].kind = "tv" /\ files[f].content # <<>>
    /\ \E f \in 1..Len(files) : files[f].kind = "tv_all" /\ files[f].content # <<>>

\* every entry of all_results is the None of a failed fetch
AllFetchesFailed == \A i \in 1..Len(all_results) : all_results[i] = None

\* the run is past the fetches
Fetched == pc \in {"report", "save_prompt", "done", "failed", "crashed"}

\* C11: when every requested exchange's fetch returned None, neither
\* display_results nor save_results runs (nothing is printed by them, no file
\* is written) and the run ends with the failure message; files are written
\* only after some fetch succeeded, display_results ran and the user asked
\* to save.
C11_AllFailedNoExport ==
    /\ (Fetched /\ AllFetchesFailed) =>
        /\ pc \in {"report", "failed"}
        /\ display_choice = ""
        /\ console = <<>>
        /\ files = <<>>
        /\ raised = "none"
    /\ pc = "failed" => AllFetchesFailed
    /\ (console # <<>> \/ pc \in {"save_prompt", "done", "crashed"}) => ~AllFetchesFailed
    /\ files # <<>> => (pc = "done" /\ console # <<>> /\ ~AllFetchesFailed)

\* both exchanges were asked for, both fetches failed, the run reported failure
C11_Witness ==
    /\ pc = "failed"
    /\ exchanges = <<binance, kraken>>
    /\ Len(all_results) = 2
    /\ AllFetchesFailed
    /\ files = <<>>

\* the count line of the common-pairs report with this kind and exchange
ReportLine(kind, exchange) ==
    CHOOSE l \in 1..Len(console) : console[l].kind = kind /\ console[l].exchange = exchange

\* the members printed under a count line of the common-pairs report
ReportMembers(l) ==
    IF l < Len(console) /\ console[l + 1].kind = "examples"
    THEN Range(console[l + 1].items)
    ELSE {}

\* the smaller of two numbers
Shortest(m, n) == IF m < n THEN m ELSE n

\* display_results printed the common-pairs report
CommonReported == \E l \in 1..Len(console) : console[l].kind = "common"

\* C12: in the common-pairs report over two successful results, with
\* first and second the sets of baseAsset/quoteAsset strings of the two
\* exchanges, |common| + |only_first| = |first|, |common| + |only_second| =
\* |second|, and common, only_first and only_second are pairwise disjoint
\* (of each set the report prints the size and the first Examples members).
C12_CommonPartition ==
    CommonReported =>
        /\ Len(all_results) = 2
        /\ all_results[1] # None /\ all_results[2] # None
        /\ LET first == PairsSet(all_results[1])
               second == PairsSet(all_results[2])
               lc == ReportLine("common", <<>>)
               l1 == ReportLine("only", all_results[1].exchange)
               l2 == ReportLine("only", all_results[2].exchange)
               common == ReportMembers(lc)
               only_first == ReportMembers(l1)
               only_second == ReportMembers(l2)
           IN /\ \E l \in 1..Len(console) :
                    console[l].kind = "only" /\ console[l].exchange = all_results[1].exchange
              /\ \E l \in 1..Len(console) :
                    console[l].kind = "only" /\ console[l].exchange = all_results[2].exchange
              /\ Cardinality(common) = Shortest(console[lc].n, Examples)
              /\ Cardinality(only_first) = Shortest(console[l1].n, Examples)
              /\ Cardinality(only_second) = Shortest(console[l2].n, Examples)
              /\ console[lc].n + console[l1].n = Cardinality(first)
              /\ console[lc].n + console[l2].n = Cardinality(second)
              /\ common \cap only_first = {}
              /\ common \cap only_second = {}
              /\ only_first \cap only_second = {}
              /\ common \subseteq first \cap second
              /\ only_first \subseteq first
              /\ only_second \subseteq second
              /\ only_first \cap second = {}
              /\ only_second \cap first = {}

\* the report was printed with pairs in common and pairs only on each side
C12_Witness ==
    /\ CommonReported
    /\ Len(all_results) = 2
    /\ all_results[1] # None /\ all_results[2] # None
    /\ console[ReportLine("common", <<>>)].n > 1
    /\ \A l \in 1..Len(console) : console[l].kind = "only" => console[l].n > 0

\* the successful result a per-exchange TradingView file was written for
ResultOfFile(file) ==
    all_results[CHOOSE i \in 1..Len(all_results) :
        all_results[i] # None /\ Upper(all_results[i].exchange) = file.exchange]

\* the symbols of a list of pair records, in the list's order
SymbolsOf(pairs) == [i \in 1..Len(pairs) |-> pairs[i].symbol]

\* the part of a TradingView line after EXCHANGE:
SymbolOfLine(line, result) == SubSeq(line, Len(result.exchange) + 2, Len(line))

\* every line is the upper-case exchange name, a colon and a symbol
Prefixed(lines, result) ==
    \A l \in 1..Len(lines) :
        /\ Len(lines[l]) > Len(result.exchange) + 1
        /\ SubSeq(lines[l], 1, Len(result.exchange) + 1) = Upper(result.exchange) \o <<":">>

\* two lists hold the same values the same number of times
SameBag(s, t) ==
    /\ Len(s) = Len(t)
    /\ \A x \in Range(s) \cup Range(t) :
        Cardinality({i \in 1..Len(s) : s[i] = x}) = Cardinality({i \in 1..Len(t) : t[i] = x})

\* a list of symbols in lexicographic order
Ascending(syms) == \A l \in 1..(Len(syms) - 1) : ~StrLess(syms[l + 1], syms[l])

\* the TradingView files were asked for
TvWritten == \E f \in 1..Len(files) : files[f].kind \in {"tv", "tv_all"}

\* every successful result has its TradingView file, once
EveryResultHasTv ==
    TvWritten =>
        \A i \in 1..Len(all_results) :
            all_results[i] # None =>
                Cardinality({f \in 1..Len(files) :
                    files[f].kind = "tv" /\ files[f].exchange = Upper(all_results[i].exchange)}) = 1

\* C13 as stated: a per-exchange TradingView file holds one line
\* EXCHANGE:symbol per pair of the result and the whole file is in
\* lexicographic order of symbol, for every requested quote list.
C13_TvSortedAsStated ==
    /\ EveryResultHasTv
    /\ \A f \in 1..Len(files) :
        files[f].kind = "tv" =>
            LET result == ResultOfFile(files[f])
                lines == files[f].content
                syms == [l \in 1..Len(lines) |-> SymbolOfLine(lines[l], result)]
            IN /\ Prefixed(lines, result)
               /\ SameBag(syms, SymbolsOf(result.all_pairs))
               /\ Ascending(syms)

\* number of lines written for the entries of the quote list before entry a
TvOffset(result, a) ==
    Sum([j \in 1..(a - 1) |-> Len(ResultsGet(result, quote_assets[j]))])

\* C13 (amended): a per-exchange TradingView file holds, for each entry of
\* the requested quote list in list order, one line EXCHANGE:symbol per pair
\* of results[that code], each such group in lexicographic order of symbol;
\* the groups follow one another in request order and nothing else is
\* written.
C13_TvSortedPerCode ==
    /\ EveryResultHasTv
    /\ \A f \in 1..Len(files) :
        files[f].kind = "tv" =>
            LET result == ResultOfFile(files[f])
                lines == files[f].content
                syms == [l \in 1..Len(lines) |-> SymbolOfLine(lines[l], result)]
            IN /\ Prefixed(lines, result)
               /\ Len(lines) = TvOffset(result, Len(quote_assets) + 1)
               /\ \A a \in 1..Len(quote_assets) :
                    LET group == SubSeq(syms, TvOffset(result, a) + 1, TvOffset(result, a + 1))
                    IN /\ SameBag(group, SymbolsOf(ResultsGet(result, quote_assets[a])))
                       /\ Ascending(group)

\* a file was written for two quote codes whose groups are each in order -
\* one of them put in order by the sort - while the file as a whole is not
C13_Witness ==
    /\ pc = "done"
    /\ Len(DictKeys(quote_assets)) = 2
    /\ \E f \in 1..Len(files) :
        /\ files[f].kind = "tv"
        /\ Len(files[f].content) >= 3
        /\ ~Ascending([l \in 1..Len(files[f].content) |->
                SymbolOfLine(files[f].content[l], ResultOfFile(files[f]))])
        /\ \E a \in 1..Len(quote_assets) :
            ~Ascending(SymbolsOf(ResultsGet(ResultOfFile(files[f]), quote_assets[a])))

\* the entry of get_exchange_choice's list that stands for a fetcher
LowerCaseName(name) == IF name = Binance THEN binance ELSE kraken

\* the fetchers main has to call, in the order of its two `if` blocks
RequestedFetchers ==
    SelectSeq(<<Binance, Kraken>>, LAMBDA name : LowerCaseName(name) \in Range(exchanges))

\* C14: the requests.get calls of a run are a prefix of the requested
\* exchanges in the order Binance, Kraken - one call per requested exchange,
\* none repeated after a failure, none for an exchange not requested; the
\* Kraken fetch starts only when the outcome of the Binance fetch has been
\* appended; and all_results holds the outcomes in the order Binance, Kraken.
C14_SequentialFetches ==
    /\ Len(http_calls) <= Len(RequestedFetchers)
    /\ http_calls = SubSeq(RequestedFetchers, 1, Len(http_calls))
    /\ Len(all_results) <= Len(http_calls)
    /\ Len(http_calls) <= Len(all_results) + 1
    /\ fetcher = Binance => (all_results = <<>> /\ Kraken \notin Range(http_calls))
    /\ fetcher = Kraken => Len(all_results) = Len(RequestedFetchers) - 1
    /\ (fetcher # <<>> /\ fpc = "begin") => Len(http_calls) = Len(all_results)
    /\ (fetcher # <<>> /\ fpc # "begin") => Len(http_calls) = Len(all_results) + 1
    /\ \A i \in 1..Len(all_results) :
        all_results[i] # None => all_results[i].exchange = RequestedFetchers[i]
    /\ Fetched =>
        /\ http_calls = RequestedFetchers
        /\ Len(all_results) = Len(RequestedFetchers)

\* both exchanges were fetched, one request each, the Binance one failed and
\* was not repeated, the Kraken one succeeded
C14_Witness ==
    /\ Fetched
    /\ http_calls = <<Binance, Kraken>>
    /\ Len(all_results) = 2
    /\ all_results[1] = None
    /\ all_results[2] # None
    /\ all_results[2].exchange = Kraken

\* display_results has run
Displayed == pc \in {"save_prompt", "done"}

\* the lines of the summary with this kind and exchange, in printed order
SummaryOf(kind, exchange) ==
    SelectSeq(console, LAMBDA line : line.kind = kind /\ line.exchange = exchange)

\* the requested codes an exchange matched at least one pair for, in request order
MatchedCodes(result) ==
    SelectSeq(quote_assets, LAMBDA k : result.results[k] # <<>>)

\* the sum of the totals of the fetches that succeeded; a failed fetch adds 0
SumOfTotals ==
    Sum([i \in 1..Len(all_results) |->
            IF all_results[i] = None THEN 0 ELSE Len(all_results[i].all_pairs)])

\* C15: the summary reports every successful exchange with, per requested
\* quote code it matched pairs for, the number of pairs matched (a code with
\* no matched pair prints no line), and with its total; a failed exchange
\* is not reported; the combined grand total is the sum of the totals of the
\* exchanges that succeeded and is printed exactly when more than one
\* exchange was queried, whether or not all of them succeeded.
C15_SummaryCounts ==
    Displayed =>
        /\ \A i \in 1..Len(all_results) :
            all_results[i] # None =>
                LET result == all_results[i]
                    counts == SummaryOf("count", result.exchange)
                    totals == SummaryOf("total", result.exchange)
                IN /\ Len(SummaryOf("exchange", result.exchange)) = 1
                   /\ [l \in 1..Len(counts) |-> counts[l].asset] = MatchedCodes(result)
                   /\ \A l \in 1..Len(counts) :
                        counts[l].n = Len(result.results[counts[l].asset])
                   /\ Len(totals) = 1
                   /\ totals[1].n = result.total
        /\ Cardinality({l \in 1..Len(console) : console[l].kind = "exchange"})
            = Cardinality({i \in 1..Len(all_results) : all_results[i] # None})
        /\ Len(SummaryOf("grand_total", <<>>)) = (IF Len(exchanges) > 1 THEN 1 ELSE 0)
        /\ \A l \in 1..Len(console) :
            console[l].kind = "grand_total" => console[l].n = SumOfTotals

\* two exchanges were queried, one of them failed, and the grand total of the
\* other one's pairs, matched for two codes, was printed
C15_Witness ==
    /\ Displayed
    /\ Len(exchanges) = 2
    /\ \E i \in 1..2 : all_results[i] = None
    /\ \E l \in 1..Len(console) : console[l].kind = "grand_total" /\ console[l].n > 1
    /\ Cardinality({l \in 1..Len(console) : console[l].kind = "count"}) >= 2

\* the fetches that succeeded, in the order of all_results
Successful == SelectSeq(all_results, LAMBDA result : result # None)

\* the distinct base assets over all successful results
BaseUnion ==
    UNION {{Successful[i].all_pairs[j].baseAsset : j \in 1..Len(Successful[i].all_pairs)} :
            i \in 1..Len(Successful)}

\* the lines of the console of one kind, in printed order
Printed(kind) == SelectSeq(console, LAMBDA line : line.kind = kind)

\* the comparison table on the console is the one the claim describes: the
\* rows are the first TableRows base assets of the union over the successful
\* results in lexicographic order, a cell is the number of the exchange's
\* pairs with the row's base asset (0 is printed blank), and the overflow
\* notice is printed for more than TableRows base assets, with the excess
TableAsDescribed ==
    LET rows == Printed("table_row")
        shown == {rows[r].asset : r \in 1..Len(rows)}
    IN /\ Len(Printed("table_header")) = 1
       /\ Printed("table_header")[1].items = [i \in 1..Len(Successful) |-> Successful[i].exchange]
       /\ Len(rows) = Shortest(Cardinality(BaseUnion), TableRows)
       /\ shown \subseteq BaseUnion
       /\ \A r \in 1..(Len(rows) - 1) : StrLess(rows[r].asset, rows[r + 1].asset)
       /\ \A b \in BaseUnion \ shown : \A r \in 1..Len(rows) : StrLess(rows[r].asset, b)
       /\ \A r \in 1..Len(rows) :
            /\ Len(rows[r].cells) = Len(Successful)
            /\ \A i \in 1..Len(Successful) :
                rows[r].cells[i] =
                    Cardinality({j \in 1..Len(Successful[i].all_pairs) :
                        Successful[i].all_pairs[j].baseAsset = rows[r].asset})
       /\ Len(Printed("overflow")) = (IF Cardinality(BaseUnion) > TableRows THEN 1 ELSE 0)
       /\ \A l \in 1..Len(Printed("overflow")) :
            Printed("overflow")[l].n = Cardinality(BaseUnion) - TableRows

\* no line of a comparison table is on the console
NoTable ==
    Printed("table_header") = <<>> /\ Printed("table_row") = <<>> /\ Printed("overflow") = <<>>

\* C16 as stated: whenever the comparison table is chosen it is produced as
\* described, for any set of exchange results, a run with a single queried
\* exchange included.
C16_TableAsStated ==
    (Displayed /\ display_choice = "2") => TableAsDescribed

\* C16 (amended): the comparison table is produced as described exactly
\* when it is chosen and more than one exchange was queried (also when only
\* one of them succeeded); when a single exchange was queried the choice
\* prints no table at all.
C16_TableWhenSeveralQueried ==
    Displayed =>
        IF display_choice = "2" /\ Len(exchanges) > 1
        THEN TableAsDescribed
        ELSE NoTable

\* the table was printed for two successful exchanges with more than
\* TableRows base assets between them: TableRows rows, a blank cell in a row
\* of a base asset only the second exchange lists, and the overflow notice
C16_Witness ==
    /\ Displayed
    /\ display_choice = "2"
    /\ Len(Successful) = 2
    /\ Len(Printed("table_row")) = TableRows
    /\ \E r \in 1..TableRows : 
        /\ Printed("table_row")[r].cells[1] = 0
        /\ Printed("table_row")[r].cells[2] > 1
    /\ \E l \in 1..Len(console) : console[l].kind = "overflow" /\ console[l].n > 1

\* C17: display_results and save_results leave every fetch outcome as it
\* was returned: an entry of all_results is the value fetch_pairs returned
\* when it was appended, and no later step - whatever the display choice and
\* the exports - changes a results mapping, the order of a list of pairs, a
\* pair record or a total.
C17_ResultsUnchanged ==
    [][/\ Len(all_results') >= Len(all_results)
       /\ SubSeq(all_results', 1, Len(all_results)) = all_results
       /\ Len(all_results') > Len(all_results) => all_results' = Append(all_results, ret)
       /\ pc \in {"report", "save_prompt"} => all_results' = all_results]_vars

\* the detailed list was shown and every file written in symbol order, while
\* a list of pairs of a result is still in the order of the feed, which is
\* not the symbol order
C17_Witness ==
    /\ pc = "done"
    /\ display_choice = "1"
    /\ \E l \in 1..Len(console) : console[l].kind = "row" /\ Len(console[l].items) > 1
    /\ \E f \in 1..Len(files) : files[f].kind = "tv" /\ Len(files[f].content) > 1
    /\ \E f \in 1..Len(files) : files[f].kind = "csv"
    /\ \E i \in 1..Len(all_results) :
        /\ all_results[i] # None
        /\ \E k \in DOMAIN all_results[i].results :
            ~Ascending(SymbolsOf(all_results[i].results[k]))

\* the pair records of a list that carry this quote code, in the list's order
WithQuote(pairs, k) == SelectSeq(pairs, LAMBDA p : p.quoteAsset = k)

\* C18: a result returned by BinanceFetcher.fetch_pairs or
\* KrakenFetcher.fetch_pairs has as keys of results exactly the requested
\* quote codes, every pair of results[k] has quoteAsset = k, all_pairs holds
\* the pairs of the results lists and nothing else, each as often as the
\* lists hold it and in the order of its list, and total = len(all_pairs) =
\* the sum of len(results[k]) over the distinct keys k.
C18_ResultConsistent ==
    (fpc = "returned" /\ ret # None) =>
        /\ ret.exchange = fetcher
        /\ DOMAIN ret.results = Range(quote_assets)
        /\ \A k \in DOMAIN ret.results :
            /\ \A j \in 1..Len(ret.results[k]) : ret.results[k][j].quoteAsset = k
            /\ WithQuote(ret.all_pairs, k) = ret.results[k]
        /\ \A j \in 1..Len(ret.all_pairs) : ret.all_pairs[j].quoteAsset \in DOMAIN ret.results
        /\ ret.total = Len(ret.all_pairs)
        /\ ret.total = Sum([i \in 1..Len(DictKeys(quote_assets)) |->
                                Len(ret.results[DictKeys(quote_assets)[i]])])

\* a fetch returned pairs for two of the requested codes and an empty list
\* for a third
C18_Witness ==
    /\ fpc = "returned"
    /\ ret # None
    /\ \E k \in DOMAIN ret.results : ret.results[k] = <<>>
    /\ \E k1, k2 \in DOMAIN ret.results :
        k1 # k2 /\ ret.results[k1] # <<>> /\ ret.results[k2] # <<>>

\* the symbols written for an exchange to the plain-text list, in file order
TxtSymbols(file, result) ==
    LET lines == SelectSeq(file.content,
                    LAMBDA line : line.kind = "symbol" /\ line.exchange = result.exchange)
    IN [l \in 1..Len(lines) |-> lines[l].items[1]]

\* C19: for every quote list get_asset_choice can return, a list with a
\* repeated code included, each pair of a successful result is written
\* exactly once to the exchange's TradingView file and exactly once to the
\* plain-text list, so the number of symbol lines written for the exchange
\* equals the result's total.
C19_EachPairWrittenOnce ==
    \A f \in 1..Len(files) :
        /\ files[f].kind = "tv" =>
            LET result == ResultOfFile(files[f])
                lines == files[f].content
            IN /\ Len(lines) = result.total
               /\ SameBag([l \in 1..Len(lines) |-> SymbolOfLine(lines[l], result)],
                          SymbolsOf(result.all_pairs))
        /\ files[f].kind = "txt" =>
            \A i \in 1..Len(all_results) :
                all_results[i] # None =>
                    /\ Len(TxtSymbols(files[f], all_results[i])) = all_results[i].total
                    /\ SameBag(TxtSymbols(files[f], all_results[i]),
                               SymbolsOf(all_results[i].all_pairs))

\* the files of one kind, in the order written
Written(kind) == SelectSeq(files, LAMBDA file : file.kind = kind)

\* C20: the combined TradingView file is the concatenation of the
\* per-exchange TradingView files of the successful exchanges in query order
\* (Binance lines before Kraken lines, every line with its own exchange's
\* upper-case name in front), and, the TradingView files being asked for, it
\* is written exactly when more than one exchange was queried, also when
\* only one of them succeeded.
C20_CombinedIsConcatenation ==
    LET tvs == Written("tv")
        combined == Written("tv_all")
    IN /\ Len(combined) = (IF tvs # <<>> /\ Len(exchanges) > 1 THEN 1 ELSE 0)
       /\ tvs # <<>> =>
            [i \in 1..Len(tvs) |-> tvs[i].exchange]
                = [i \in 1..Len(Successful) |-> Upper(Successful[i].exchange)]
       /\ \A c \in 1..Len(combined) :
            /\ combined[c].content = Flatten([i \in 1..Len(tvs) |-> tvs[i].content])
            /\ \A i \in 1..Len(tvs) :
                LET before == Sum([j \in 1..(i - 1) |-> Len(tvs[j].content)])
                IN Prefixed(SubSeq(combined[c].content, before + 1, before + Len(tvs[i].content)),
                            Successful[i])

\* both exchanges succeeded and the combined file holds the Binance lines
\* followed by the Kraken lines
C20_Witness ==
    /\ pc = "done"
    /\ Len(Successful) = 2
    /\ Len(Written("tv")) = 2
    /\ Len(Written("tv_all")) = 1
    /\ Written("tv")[1].content # <<>>
    /\ Written("tv")[2].content # <<>>
    /\ Len(Written("tv_all")[1].content)
        = Len(Written("tv")[1].content) + Len(Written("tv")[2].content)

====
